---- MODULE Spec2Model ----
(***************************************************************************)
(* Model of scripts/2025-07-10_summarizer.py: massively_summarize, the     *)
(* recursive document-structuring engine.  One frame per call of           *)
(* massively_summarize, keyed by its toc_path.  The Language Service       *)
(* (gist, propose-headers, classify, write-section) answers each call      *)
(* nondeterministically; the calls of one dspy Parallel fan-out return in  *)
(* any order and are collected by dispatch position.                       *)
(***************************************************************************)
EXTENDS Integers, Sequences, FiniteSets, Bags, TLC

VARIABLES frames, rootPath, cancelled

vars == <<frames, rootPath, cancelled>>

(* ---------------- bounds of the explored inputs ------------------------ *)
MaxChunks == 5

(* ---------------- program constants ------------------------------------ *)
MinFanoutSize == 5
MaxDepth == 3

SEP == "\n\n"
SENTINEL == "No content generated for this section."

(* Python's None, as a text no service answer and no section is equal to. *)
NoneVal == <<"<None>">>
(* A classify call that has not returned yet. *)
NoTopic == "<pending>"
(* A classify call that raised: Parallel leaves None at its position. *)
FailTopic == "<None>"

(* ---------------- inputs ------------------------------------------------ *)
ChunkText == <<"alpha text", "beta text", "gamma text", "delta text">>

(* the chunk sequences of every length up to MaxChunks: the first four texts
   are distinct, the later ones repeat them *)
InputChunks ==
    { [i \in 1..n |-> ChunkText[((i - 1) % Len(ChunkText)) + 1]] : n \in 0..MaxChunks }

(* line 116: the top-level call is given a path of one element, the
   document's heading *)
RootHeading == "Doc"

RootPaths == { <<RootHeading>> }

(* ---------------- the Language Service's answers ------------------------ *)
HeaderAnswers ==
    { <<>>, <<"Greek">>, <<"Greek", "Other">>, <<"Other", "Greek">>, <<"Greek", "Greek">> }

Range(s) == { s[i] : i \in DOMAIN s }

(* classify answers one of the proposed labels, or a label outside them *)
ClassifyAnswers(headers) == Range(headers) \cup {"Misc"}

(* write-section answers nothing, or a text: the joined chunk text (the empty
   text for no chunks) *)
WriteAnswers(chunks) == { NoneVal, chunks }

(* ---------------- pure helpers ------------------------------------------ *)
Last(s) == s[Len(s)]

Min(a, b) == IF a < b THEN a ELSE b

Max(a, b) == IF a < b THEN b ELSE a

Parent(path) == SubSeq(path, 1, Len(path) - 1)

(* line 84 with the size test forgotten *)
IsBaseCaseNoSize(toc_path, chunks) == Len(toc_path) >= MaxDepth

(* line 84 with the size test off by one: exactly MinFanoutSize chunks are
   still a base case *)
IsBaseCaseOffByOne(toc_path, chunks) ==
    Len(chunks) <= MinFanoutSize \/ Len(toc_path) >= MaxDepth

(* line 84: the base-case test *)
IsBaseCase(toc_path, chunks) ==
    Len(chunks) < MinFanoutSize \/ Len(toc_path) >= MaxDepth

(* lines 89, 99 *)
SentinelSection(toc_path) == <<Last(toc_path), SEP, SENTINEL>>

(* lines 88-90 without the None test: the answer is formatted as it is *)
BaseSectionNoNoneTest(toc_path, content) == <<Last(toc_path), SEP>> \o content

(* lines 88-90: the base case's return value *)
BaseSection(toc_path, content) ==
    IF content = NoneVal
    THEN SentinelSection(toc_path)
    ELSE <<Last(toc_path), SEP>> \o content

(* line 63 with one entry made for every element of headers, repeated or not *)
RECURSIVE EmptySectionsNoDedup(_, _)
EmptySectionsNoDedup(headers, i) ==
    IF i = 0 THEN <<>>
    ELSE Append(EmptySectionsNoDedup(headers, i - 1),
                [topic |-> headers[i], chunks |-> <<>>])

(* line 63: {topic: [] for topic in headers}; a dict keeps one entry per
   distinct key, at the position of its first insertion *)
RECURSIVE EmptySections(_, _)
EmptySections(headers, i) ==
    IF i = 0 THEN <<>>
    ELSE LET rest == EmptySections(headers, i - 1)
         IN  IF \E k \in DOMAIN rest : rest[k].topic = headers[i]
             THEN rest
             ELSE Append(rest, [topic |-> headers[i], chunks |-> <<>>])

HasKey(sections, topic) == \E k \in DOMAIN sections : sections[k].topic = topic

(* lines 64-65 with the chunk put at the front of its list *)
RECURSIVE PrependChunks(_, _, _, _)
PrependChunks(sections, topics, chunks, i) ==
    IF i > Min(Len(topics), Len(chunks)) THEN sections
    ELSE PrependChunks(
            [k \in DOMAIN sections |->
                IF sections[k].topic = topics[i]
                THEN [sections[k] EXCEPT !.chunks = <<chunks[i]>> \o @]
                ELSE sections[k]],
            topics, chunks, i + 1)

(* lines 64-65: sections[topic.topic].append(chunk) over zip(topics, chunks) *)
RECURSIVE AppendChunks(_, _, _, _)
AppendChunks(sections, topics, chunks, i) ==
    IF i > Min(Len(topics), Len(chunks)) THEN sections
    ELSE AppendChunks(
            [k \in DOMAIN sections |->
                IF sections[k].topic = topics[i]
                THEN [sections[k] EXCEPT !.chunks = Append(@, chunks[i])]
                ELSE sections[k]],
            topics, chunks, i + 1)

(* line 65 raises KeyError when a topic is no key of the dict *)
GroupKeyError(topics, chunks, headers) ==
    \E i \in 1..Min(Len(topics), Len(chunks)) :
        ~HasKey(EmptySections(headers, Len(headers)), topics[i])

(* lines 62-66 with the dict built on demand: a label no chunk was classified
   to gets no key *)
GroupNonEmptyOnly(topics, chunks, headers) ==
    SelectSeq(AppendChunks(EmptySections(headers, Len(headers)), topics, chunks, 1),
              LAMBDA sec : sec.chunks /= <<>>)

(* lines 62-66 *)
group_sections(topics, chunks, headers) ==
    AppendChunks(EmptySections(headers, Len(headers)), topics, chunks, 1)

(* one gist call per distinct chunk text only *)
GistCallsDistinct(chunks) ==
    { i \in DOMAIN chunks : \A j \in 1..(i - 1) : chunks[j] /= chunks[i] }

(* line 45: one (produce_gist, {...}) pair for each chunk; the calls are named
   by the chunk's position *)
GistCalls(chunks) == DOMAIN chunks

(* line 73 with the label appended to the caller's own list, which every
   call dispatched from it shares *)
ChildPathShared(toc_path, sections, k) ==
    toc_path \o [j \in 1..k |-> sections[j].topic]

(* line 73: toc_path + [topic], a new list for the k-th section's call *)
ChildPath(toc_path, sections, k) == toc_path \o <<sections[k].topic>>

(* results collected in the order the calls completed in *)
CollectByArrival(slots, arrived) ==
    [k \in DOMAIN arrived |-> slots[arrived[k]]]

(* lines 71-77: Parallel returns one result per dispatched call, at the
   position of its dispatch; arrived is the order the calls completed in *)
summarized_sections(slots, arrived) == slots

(* line 97 *)
RECURSIVE valid_sections(_)
valid_sections(summarized) ==
    IF summarized = <<>> THEN <<>>
    ELSE IF Head(summarized) = NoneVal
         THEN valid_sections(Tail(summarized))
         ELSE <<Head(summarized)>> \o valid_sections(Tail(summarized))

(* the parts put one after the other with nothing between them *)
RECURSIVE JoinNoSep(_)
JoinNoSep(parts) ==
    IF parts = <<>> THEN <<>>
    ELSE Head(parts) \o JoinNoSep(Tail(parts))

(* "\n\n".join(valid_sections) *)
RECURSIVE JoinSep(_)
JoinSep(parts) ==
    IF parts = <<>> THEN <<>>
    ELSE IF Len(parts) = 1 THEN Head(parts)
         ELSE Head(parts) \o <<SEP>> \o JoinSep(Tail(parts))

(* lines 97-101: the recursive case's return value *)
MergedSection(toc_path, summarized) ==
    IF valid_sections(summarized) = <<>>
    THEN SentinelSection(toc_path)
    ELSE <<Last(toc_path), SEP>> \o JoinSep(valid_sections(summarized))

(* ---------------- frames -------------------------------------------------- *)
NewFrame(chunks) ==
    [ chunks     |-> chunks,
      pc         |-> "called",
      kind       |-> "none",
      pending    |-> {},
      headers    |-> <<>>,
      topics     |-> <<>>,
      sections   |-> <<>>,
      slots      |-> <<>>,
      arrived    |-> <<>>,
      result     |-> NoneVal,
      content    |-> NoneVal,
      fault      |-> "none",
      nGist      |-> 0,
      nHeaders   |-> 0,
      nClassify  |-> 0,
      nWrite     |-> 0 ]

Finished(f) == f.pc \in {"done", "raised"}

(* position of the child labelled topic among the parent's sections *)
SlotOf(f, topic) == CHOOSE k \in DOMAIN f.sections : f.sections[k].topic = topic

(* the outcome of the call at path put at the next free position of the
   caller's results, in the order the calls complete *)
FinishByArrival(path, pc, res) ==
    LET own == [frames EXCEPT ![path].pc = pc, ![path].result = res]
    IN  IF path = rootPath THEN own
        ELSE LET par == Parent(path)
                 k   == SlotOf(frames[par], Last(path))
             IN  [own EXCEPT ![par].slots[Len(frames[par].arrived) + 1] = res,
                             ![par].arrived = Append(@, k)]

(* The call at path ends: it returns res, or raises (res = NoneVal).  Inside
   a Parallel fan-out (lines 71-76) the outcome lands in the caller's slot of
   that call; a call that raised leaves None there (line 97 drops it). *)
Finish(path, pc, res) ==
    LET own == [frames EXCEPT ![path].pc = pc, ![path].result = res]
    IN  IF path = rootPath THEN own
        ELSE LET par == Parent(path)
                 k   == SlotOf(frames[par], Last(path))
             IN  [own EXCEPT ![par].slots[k] = res,
                             ![par].arrived = Append(@, k)]

(* where each call stands: what it can do or which answer it waits for *)
CanEnter(path) == frames[path].pc = "called"

AwaitsWrite(path) == frames[path].pc = "write"

AwaitsGist(path) == frames[path].pc = "gist" /\ frames[path].pending /= {}

AwaitsHeaders(path) == frames[path].pc = "headers"

AwaitsClassify(path) ==
    /\ frames[path].pc = "classify"
    /\ \E i \in DOMAIN frames[path].topics : frames[path].topics[i] = NoTopic

(* lines 96-97 reached without waiting for the recursive calls *)
CanMergeEarly(path) == frames[path].pc = "recurse"

(* line 96-97: Parallel has returned, every recursive call has ended *)
CanMerge(path) ==
    /\ frames[path].pc = "recurse"
    /\ Len(frames[path].arrived) = Len(frames[path].sections)

(* some call can take its next step, or an answer it waits for can come *)
CanStep ==
    \E path \in DOMAIN frames :
        \/ CanEnter(path) \/ AwaitsWrite(path) \/ AwaitsGist(path)
        \/ AwaitsHeaders(path) \/ AwaitsClassify(path) \/ CanMerge(path)

Init ==
    /\ rootPath \in RootPaths
    /\ cancelled = FALSE
    /\ \E chunks \in InputChunks : frames = (rootPath :> NewFrame(chunks))

(* line 84-86 / line 92: the call starts; base case issues write-section,
   the recursive case dispatches one gist call per chunk *)
Enter(path) ==
    /\ CanEnter(path)
    /\ IF IsBaseCase(path, frames[path].chunks)
       THEN frames' = [frames EXCEPT ![path].pc = "write",
                                     ![path].kind = "base",
                                     ![path].nWrite = @ + 1]
       ELSE frames' = [frames EXCEPT ![path].pc = "gist",
                                     ![path].kind = "expanded",
                                     ![path].pending = GistCalls(frames[path].chunks),
                                     ![path].nGist = @ + Cardinality(GistCalls(frames[path].chunks))]
    /\ UNCHANGED <<rootPath, cancelled>>

(* lines 44-47, 93: the gist call i of path has ended and fault tells whether
   a gist call of the fan-out has raised.  After the last call line 47 reads
   .gist of every result: it raises on the None of a call that raised,
   otherwise propose-headers is called *)
GistDone(path, i, fault) ==
    IF frames[path].pending /= {i}
    THEN [frames EXCEPT ![path].pending = @ \ {i}, ![path].fault = fault]
    ELSE IF fault /= "none"
    THEN [Finish(path, "raised", NoneVal) EXCEPT ![path].pending = {},
                                                 ![path].fault = fault]
    ELSE [frames EXCEPT ![path].pending = {},
                        ![path].pc = "headers",
                        ![path].nHeaders = @ + 1]

(* lines 85-90: write-section returns *)
WriteReturn(path) ==
    /\ AwaitsWrite(path)
    /\ \E content \in WriteAnswers(frames[path].chunks) :
          frames' = [Finish(path, "done", BaseSection(path, content))
                        EXCEPT ![path].content = content]
    /\ UNCHANGED <<rootPath, cancelled>>

(* lines 44-47, 93: one gist call returns; after the last one the gists are
   collected and propose-headers is called *)
GistReturn(path) ==
    /\ AwaitsGist(path)
    /\ \E i \in frames[path].pending : frames' = GistDone(path, i, frames[path].fault)
    /\ UNCHANGED <<rootPath, cancelled>>

(* lines 52, 94, 56-58: propose-headers returns; one classify call per chunk
   is dispatched *)
HeadersDone(path, headers) ==
    [frames EXCEPT
        ![path].headers = headers,
        ![path].pc = "classify",
        ![path].topics = [i \in DOMAIN frames[path].chunks |-> NoTopic],
        ![path].nClassify = @ + Len(frames[path].chunks)]

HeadersReturn(path) ==
    /\ AwaitsHeaders(path)
    /\ \E headers \in HeaderAnswers : frames' = HeadersDone(path, headers)
    /\ UNCHANGED <<rootPath, cancelled>>

(* lines 58-59, 95-96: the classify call i of path has ended with topic t
   (FailTopic when it raised).  After the last call the chunks are grouped
   (line 65 raises on a topic that is no key, and on the None of a call that
   raised) and one recursive call per section is dispatched *)
ClassifyDone(path, i, t, fault) ==
    LET f      == frames[path]
        topics == [f.topics EXCEPT ![i] = t]
    IN  IF \E j \in DOMAIN topics : topics[j] = NoTopic
        THEN [frames EXCEPT ![path].topics = topics, ![path].fault = fault]
        ELSE IF GroupKeyError(topics, f.chunks, f.headers)
        THEN [Finish(path, "raised", NoneVal) EXCEPT ![path].topics = topics,
                                                     ![path].fault = fault]
        ELSE LET sections == group_sections(topics, f.chunks, f.headers)
                 kids == { ChildPath(path, sections, k) : k \in DOMAIN sections }
             IN  [ p \in DOMAIN frames \cup kids |->
                     IF p = path
                     THEN [f EXCEPT !.topics = topics,
                                    !.sections = sections,
                                    !.slots = [k \in DOMAIN sections |-> NoneVal],
                                    !.pc = "recurse"]
                     ELSE IF p \in kids
                     THEN NewFrame(sections[SlotOf([sections |-> sections], Last(p))].chunks)
                     ELSE frames[p] ]

(* lines 58-59, 95-96: one classify call returns *)
ClassifyReturn(path) ==
    /\ AwaitsClassify(path)
    /\ \E i \in DOMAIN frames[path].topics, t \in ClassifyAnswers(frames[path].headers) :
          /\ frames[path].topics[i] = NoTopic
          /\ frames' = ClassifyDone(path, i, t, frames[path].fault)
    /\ UNCHANGED <<rootPath, cancelled>>

(* lines 96-101: every recursive call has ended; the sections are merged *)
Merge(path) ==
    /\ CanMerge(path)
    /\ frames' = Finish(path, "done",
                    MergedSection(path, summarized_sections(frames[path].slots,
                                                            frames[path].arrived)))
    /\ UNCHANGED <<rootPath, cancelled>>

Next ==
    \/ \E path \in DOMAIN frames : Enter(path)
    \/ \E path \in DOMAIN frames : WriteReturn(path)
    \/ \E path \in DOMAIN frames : GistReturn(path)
    \/ \E path \in DOMAIN frames : HeadersReturn(path)
    \/ \E path \in DOMAIN frames : ClassifyReturn(path)
    \/ \E path \in DOMAIN frames : Merge(path)

Spec == Init /\ [][Next]_vars

(* ---------------- service calls that raise -------------------------------- *)
(* line 85: the write-section call raises, and so does the call at path *)
WriteFails(path) ==
    /\ AwaitsWrite(path)
    /\ frames' = [Finish(path, "raised", NoneVal) EXCEPT ![path].fault = "write"]
    /\ UNCHANGED <<rootPath, cancelled>>

(* lines 44-47: a gist call raises; Parallel leaves None at its position *)
GistFails(path) ==
    /\ AwaitsGist(path)
    /\ \E i \in frames[path].pending : frames' = GistDone(path, i, "gist")
    /\ UNCHANGED <<rootPath, cancelled>>

(* lines 52, 93: the propose-headers call raises, and so does the call at path *)
HeadersFails(path) ==
    /\ AwaitsHeaders(path)
    /\ frames' = [Finish(path, "raised", NoneVal) EXCEPT ![path].fault = "headers"]
    /\ UNCHANGED <<rootPath, cancelled>>

(* lines 58-59: a classify call raises; Parallel leaves None at its position *)
ClassifyFails(path) ==
    /\ AwaitsClassify(path)
    /\ \E i \in DOMAIN frames[path].topics :
          /\ frames[path].topics[i] = NoTopic
          /\ frames' = ClassifyDone(path, i, FailTopic, "classify")
    /\ UNCHANGED <<rootPath, cancelled>>

FailNext ==
    \/ Next
    \/ \E path \in DOMAIN frames : WriteFails(path)
    \/ \E path \in DOMAIN frames : GistFails(path)
    \/ \E path \in DOMAIN frames : HeadersFails(path)
    \/ \E path \in DOMAIN frames : ClassifyFails(path)

(* the call tree with a Language Service whose calls may raise *)
FailSpec == Init /\ [][FailNext]_vars

(* every service call returns and every runnable call is run *)
FairSpec == Spec /\ WF_vars(Next)

(* ---------------- the caller's cancellation request ---------------------- *)
(* The caller asks to cancel the running top-level call.  massively_summarize
   and its helpers take no cancellation token and test none: the request
   changes nothing the code reads. *)
Cancel ==
    /\ ~cancelled
    /\ ~Finished(frames[rootPath])
    /\ cancelled' = TRUE
    /\ UNCHANGED <<frames, rootPath>>

CancelNext == Next \/ Cancel

(* the call tree with a caller that may ask to cancel *)
CancelSpec == Init /\ [][CancelNext]_vars

(* ---------------- one run against a stub Language Service ---------------- *)
E2EChunks ==
    <<"alpha text", "beta text", "gamma text", "delta text", "epsilon text", "zeta text">>

E2ERoot == <<"Doc">>

(* the stub's answers: the same two headers for every node, a label by the
   chunk's first word, the chunks' text for write-section *)
StubHeaders == <<"Greek", "Other">>

GreekLetters == {"alpha", "beta", "gamma", "delta", "epsilon", "zeta"}

FirstWord(chunk) ==
    CASE chunk = "alpha text"   -> "alpha"
      [] chunk = "beta text"    -> "beta"
      [] chunk = "gamma text"   -> "gamma"
      [] chunk = "delta text"   -> "delta"
      [] chunk = "epsilon text" -> "epsilon"
      [] chunk = "zeta text"    -> "zeta"
      [] OTHER                  -> chunk

StubTopic(chunk) == IF FirstWord(chunk) \in GreekLetters THEN "Greek" ELSE "Other"

StubContent(chunks) == chunks

(* every answer recorded in the frames is the stub's *)
StubService ==
    \A p \in DOMAIN frames :
        LET f == frames[p]
        IN  /\ (f.kind = "expanded" /\ f.pc \in {"classify", "recurse", "done", "raised"})
                    => f.headers = StubHeaders
            /\ \A i \in DOMAIN f.topics :
                    f.topics[i] \in {NoTopic, StubTopic(f.chunks[i])}
            /\ (f.kind = "base" /\ f.pc = "done") => f.content = StubContent(f.chunks)

E2EInit ==
    /\ rootPath = E2ERoot
    /\ cancelled = FALSE
    /\ frames = (rootPath :> NewFrame(E2EChunks))

(* the steps of the code in which the service answers as the stub does *)
E2ENext ==
    \/ \E path \in DOMAIN frames : Enter(path) /\ StubService'
    \/ \E path \in DOMAIN frames : WriteReturn(path) /\ StubService'
    \/ \E path \in DOMAIN frames : GistReturn(path) /\ StubService'
    \/ \E path \in DOMAIN frames : HeadersReturn(path) /\ StubService'
    \/ \E path \in DOMAIN frames : ClassifyReturn(path) /\ StubService'
    \/ \E path \in DOMAIN frames : Merge(path) /\ StubService'

(* line 116 with the scenario's arguments, the service being the stub *)
E2ESpec == E2EInit /\ [][E2ENext]_vars

(* ---------------- runs against one deterministic Language Service -------- *)
(* A service whose answer is a function of the call's arguments: the headers
   of the path and the gists, the label of the path and the chunk, the text
   of the path and the chunks. *)
DetHeaders(toc_path, chunks) ==
    IF Len(toc_path) = 1 THEN <<"Other", "Greek">>
    ELSE IF Last(toc_path) = "Greek" THEN <<"Greek", "Other">>
    ELSE <<"Other", "Greek">>

DetTopic(toc_path, chunk) ==
    IF Len(toc_path) = 1 THEN "Greek"
    ELSE IF Last(toc_path) = "Greek"
         THEN (IF chunk \in {"alpha text", "gamma text"} THEN "Greek" ELSE "Other")
         ELSE (IF chunk = "alpha text" THEN "Other" ELSE "Greek")

DetContent(toc_path, chunks) == IF chunks = <<>> THEN NoneVal ELSE chunks

(* every answer recorded in the frames is the deterministic service's *)
DetService ==
    \A p \in DOMAIN frames :
        LET f == frames[p]
        IN  /\ (f.kind = "expanded" /\ f.pc \in {"classify", "recurse", "done", "raised"})
                    => f.headers = DetHeaders(p, f.chunks)
            /\ \A i \in DOMAIN f.topics :
                    f.topics[i] \in {NoTopic, DetTopic(p, f.chunks[i])}
            /\ (f.kind = "base" /\ f.pc = "done") => f.content = DetContent(p, f.chunks)

(* the steps of the code in which the service answers by its function; the
   calls of a fan-out still return in any order *)
DetNext ==
    \/ \E path \in DOMAIN frames : Enter(path) /\ DetService'
    \/ \E path \in DOMAIN frames : WriteReturn(path) /\ DetService'
    \/ \E path \in DOMAIN frames : GistReturn(path) /\ DetService'
    \/ \E path \in DOMAIN frames : HeadersReturn(path) /\ DetService'
    \/ \E path \in DOMAIN frames : ClassifyReturn(path) /\ DetService'
    \/ \E path \in DOMAIN frames : Merge(path) /\ DetService'

DetSpec == Init /\ [][DetNext]_vars

(* ---------------- a propose-headers that repeats labels ------------------- *)
(* header lists in which a label occurs more than once *)
DupHeaderAnswers ==
    { <<"Greek", "Greek">>, <<"Greek", "Other", "Greek">>,
      <<"Other", "Greek", "Greek", "Other">> }

(* lines 52, 94, 56-58: propose-headers returns a list with a repeated label *)
DupHeadersReturn(path) ==
    /\ AwaitsHeaders(path)
    /\ \E headers \in DupHeaderAnswers : frames' = HeadersDone(path, headers)
    /\ UNCHANGED <<rootPath, cancelled>>

DupNext ==
    \/ \E path \in DOMAIN frames : Enter(path)
    \/ \E path \in DOMAIN frames : WriteReturn(path)
    \/ \E path \in DOMAIN frames : GistReturn(path)
    \/ \E path \in DOMAIN frames : DupHeadersReturn(path)
    \/ \E path \in DOMAIN frames : ClassifyReturn(path)
    \/ \E path \in DOMAIN frames : Merge(path)

(* the call tree with a propose-headers that always repeats a label *)
DupSpec == Init /\ [][DupNext]_vars

(* ======================= properties ======================================= *)
Root == frames[rootPath]

Paths == DOMAIN frames

Expanded(p) == frames[p].kind = "expanded"

(* the sections of p have been built by group_sections *)
Grouped(p) == frames[p].pc \in {"recurse", "done"} /\ Expanded(p)

Count(x, s) == Cardinality({ i \in DOMAIN s : s[i] = x })

BagOfSeq(s) == [ x \in Range(s) |-> Count(x, s) ]

(* the chunks handed to write-section by the calls in S *)
RECURSIVE WrittenBag(_)
WrittenBag(S) ==
    IF S = {} THEN EmptyBag
    ELSE LET p == CHOOSE q \in S : TRUE
         IN  (IF frames[p].nWrite > 0 THEN BagOfSeq(frames[p].chunks) ELSE EmptyBag)
             (+) WrittenBag(S \ {p})

(* the chunks of all groups of p *)
RECURSIVE GroupedBag(_, _)
GroupedBag(sections, k) ==
    IF k = 0 THEN EmptyBag
    ELSE BagOfSeq(sections[k].chunks) (+) GroupedBag(sections, k - 1)

(* the body of a Section: what follows its heading and the blank line *)
Body(section) == SubSeq(section, 3, Len(section))

IsSentinel(section) == section /= NoneVal /\ Body(section) = <<SENTINEL>>

(* C1: once the top-level call has ended, the chunks handed to write-section
   over the whole call tree are, as a multiset, the input chunks; and at every
   expanded node whose groups were built the groups hold each chunk of the
   node exactly once. *)
C1_Coverage ==
    /\ Finished(Root) => WrittenBag(Paths) = BagOfSeq(Root.chunks)
    /\ \A p \in Paths :
          Grouped(p) =>
             GroupedBag(frames[p].sections, Len(frames[p].sections))
                = BagOfSeq(frames[p].chunks)

(* no node with a path of MaxDepth or more elements is expanded, and every
   path of the call tree has at most MaxDepth elements *)
PathsAtMostMaxDepth ==
    \A p \in Paths :
        /\ Len(p) >= MaxDepth => ~Expanded(p)
        /\ Len(p) <= MaxDepth

(* C2: a node with a path of MaxDepth or more elements is never expanded (no
   gist, propose-headers, classify or recursive call comes from it), every
   path of the call tree has at most MaxDepth elements, and the top-level
   call, every service call of which returns, returns: it never ends by
   raising. *)
C2_Termination ==
    /\ PathsAtMostMaxDepth
    /\ \A p \in Paths :
          Len(p) >= MaxDepth =>
              frames[p].nGist = 0 /\ frames[p].nHeaders = 0 /\ frames[p].nClassify = 0
    /\ Root.pc /= "raised"

NeverExpandedAtMaxDepth ==
    \A p \in Paths :
        /\ Len(p) >= MaxDepth =>
              /\ ~Expanded(p)
              /\ frames[p].nGist = 0 /\ frames[p].nHeaders = 0 /\ frames[p].nClassify = 0
              /\ \A q \in Paths : ~(Len(q) > Len(p) /\ SubSeq(q, 1, Len(p)) = p)
        /\ Len(p) <= Max(MaxDepth, Len(rootPath))

(* the most labels one propose-headers answer holds *)
MaxLabels == CHOOSE n \in 0..10 :
    /\ \E h \in HeaderAnswers : Len(h) = n
    /\ \A h \in HeaderAnswers : Len(h) <= n

(* a bound on the steps a call with n chunks and a path of len elements can
   still take, its recursive calls included *)
RECURSIVE CallWork(_, _)
CallWork(len, n) ==
    IF len >= MaxDepth \/ n < MinFanoutSize THEN 2
    ELSE 2 * n + 3 + MaxLabels * CallWork(len + 1, n)

PendingTopics(f) == Cardinality({ i \in DOMAIN f.topics : f.topics[i] = NoTopic })

(* the steps the call at p can still take; once its recursive calls are
   dispatched they carry their own share *)
FrameWork(p) ==
    LET f == frames[p]
        n == Len(f.chunks)
        kids == MaxLabels * CallWork(Len(p) + 1, n)
    IN  CASE f.pc = "called"   -> CallWork(Len(p), n)
          [] f.pc = "write"    -> 1
          [] f.pc = "gist"     -> Cardinality(f.pending) + n + 2 + kids
          [] f.pc = "headers"  -> n + 2 + kids
          [] f.pc = "classify" -> PendingTopics(f) + 1 + kids
          [] f.pc = "recurse"  -> 1
          [] OTHER             -> 0

(* the sum of FrameWork over all calls (a bag holds each call as many times
   as it has steps left) *)
TotalWork ==
    BagCardinality([ p \in { q \in DOMAIN frames : ~Finished(frames[q]) } |-> FrameWork(p) ])

(* the depth bound and the end of every run: no node with a path of MaxDepth
   or more elements is expanded, every step of the call tree uses up a finite
   budget of work, and until the top-level call has ended (returned or
   raised) some call can take a step or some awaited answer can come *)
EndsWithinMaxDepth ==
    /\ []NeverExpandedAtMaxDepth
    /\ [][TotalWork' < TotalWork]_vars
    /\ [](Finished(Root) \/ CanStep)

(* a node of path length MaxDepth, made by recursion with MinFanoutSize chunks
   or more, has ended as a base case and the top-level call has ended *)
EndsWithinMaxDepthWitness ==
    /\ Finished(Root)
    /\ \E p \in Paths :
          /\ p /= rootPath /\ Len(p) = MaxDepth
          /\ Len(frames[p].chunks) >= MinFanoutSize
          /\ frames[p].pc = "done" /\ frames[p].nWrite = 1

(* C3: a node with fewer than MinFanoutSize chunks, at any path length, calls
   write-section exactly once and never gist, propose-headers or classify. *)
C3_BaseCaseTrigger ==
    \A p \in Paths :
        Len(frames[p].chunks) < MinFanoutSize =>
            /\ ~Expanded(p)
            /\ frames[p].nGist = 0 /\ frames[p].nHeaders = 0 /\ frames[p].nClassify = 0
            /\ frames[p].nWrite = (IF frames[p].pc = "called" THEN 0 ELSE 1)
            /\ frames[p].pc \in {"called", "write", "done"}

(* a child node with four chunks has returned *)
C3_Witness ==
    \E p \in Paths :
        /\ p /= rootPath
        /\ Len(frames[p].chunks) = MinFanoutSize - 1
        /\ frames[p].pc = "done" /\ frames[p].nWrite = 1

(* the reserved group of the spec's Partitioner *)
Unclassified == "unclassified"

AllClassified(p) ==
    /\ Expanded(p) /\ frames[p].nClassify > 0
    /\ \A i \in DOMAIN frames[p].topics : frames[p].topics[i] /= NoTopic

(* C4: when classify has answered, for some chunk, a label outside the labels
   proposed for the node, the partition does not fail and the chunk is in the
   reserved "unclassified" group. *)
C4_UnclassifiedFallback ==
    \A p \in Paths :
        AllClassified(p) =>
            \A i \in DOMAIN frames[p].topics :
                frames[p].topics[i] \notin Range(frames[p].headers) =>
                    /\ frames[p].pc /= "raised"
                    /\ \E k \in DOMAIN frames[p].sections :
                          /\ frames[p].sections[k].topic = Unclassified
                          /\ frames[p].chunks[i] \in Range(frames[p].sections[k].chunks)

(* C5: a node with MinFanoutSize chunks or more and a path shorter than
   MaxDepth, to which propose-headers answered no label, ends by returning the
   base case's Section: one write-section call on all its chunks, no raise. *)
C5_EmptyHeaderFallback ==
    \A p \in Paths :
        (Expanded(p) /\ frames[p].nClassify > 0 /\ frames[p].headers = <<>>
            /\ Finished(frames[p])) =>
            /\ frames[p].pc = "done"
            /\ frames[p].nWrite = 1
            /\ frames[p].result \in { BaseSection(p, c) : c \in WriteAnswers(frames[p].chunks) }

(* C6: a call with no chunks returns the heading and the sentinel, whatever
   write-section answers. *)
C6_EmptyInput ==
    \A p \in Paths :
        (frames[p].chunks = <<>> /\ frames[p].pc = "done") =>
            frames[p].result = SentinelSection(p)

AllChildrenReturned(p) ==
    /\ Expanded(p) /\ frames[p].pc = "done"
    /\ Len(frames[p].sections) > 0
    /\ \A k \in DOMAIN frames[p].slots : frames[p].slots[k] /= NoneVal

(* C7: an expanded node all of whose child Sections have the sentinel as
   body returns its heading and a single sentinel. *)
C7_SentinelPropagation ==
    \A p \in Paths :
        (AllChildrenReturned(p)
            /\ \A k \in DOMAIN frames[p].slots : IsSentinel(frames[p].slots[k])) =>
            frames[p].result = SentinelSection(p)

(* the child Sections of p with real content, in slot order *)
RECURSIVE RealChildren(_)
RealChildren(slots) ==
    IF slots = <<>> THEN <<>>
    ELSE IF Head(slots) = NoneVal \/ IsSentinel(Head(slots))
         THEN RealChildren(Tail(slots))
         ELSE <<Head(slots)>> \o RealChildren(Tail(slots))

(* C8: at an expanded node with at least one child of real content, the
   merged body holds exactly the children whose body is not the sentinel. *)
C8_SentinelSuppression ==
    \A p \in Paths :
        (AllChildrenReturned(p) /\ RealChildren(frames[p].slots) /= <<>>) =>
            frames[p].result = <<Last(p), SEP>> \o JoinSep(RealChildren(frames[p].slots))

(* C9: a recursive call is issued only for a label whose group is not empty. *)
C9_EmptyGroupsSkipped ==
    \A p \in Paths : p /= rootPath => frames[p].chunks /= <<>>

(* the Sections the children of p returned, read from the children's own
   frames in the order propose-headers gave their labels (a repeated label
   counts where it first occurs) *)
RECURSIVE ChildrenInLabelOrder(_, _, _)
ChildrenInLabelOrder(p, headers, i) ==
    IF i = 0 THEN <<>>
    ELSE LET before == ChildrenInLabelOrder(p, headers, i - 1)
             q == p \o <<headers[i]>>
         IN  IF (\E j \in 1..(i - 1) : headers[j] = headers[i]) \/ frames[q].pc /= "done"
             THEN before
             ELSE Append(before, frames[q].result)

(* C10: the merged body of an expanded node lists the child Sections in the
   order propose-headers gave their labels, whatever order the recursive
   calls completed in. *)
C10_LabelOrderMerge ==
    \A p \in Paths :
        (Expanded(p) /\ frames[p].pc = "done") =>
            LET kids == ChildrenInLabelOrder(p, frames[p].headers, Len(frames[p].headers))
            IN  kids /= <<>> => frames[p].result = <<Last(p), SEP>> \o JoinSep(kids)

(* a node has merged two returned children of which the second completed
   first *)
C10_Witness ==
    \E p \in Paths :
        /\ Expanded(p) /\ frames[p].pc = "done"
        /\ frames[p].arrived = <<2, 1>>
        /\ \A k \in DOMAIN frames[p].slots : frames[p].slots[k] /= NoneVal

(* the chunks of f classified to topic, in the order of f's chunk sequence *)
RECURSIVE ChunksOfTopic(_, _, _)
ChunksOfTopic(f, topic, i) ==
    IF i = 0 THEN <<>>
    ELSE IF f.topics[i] = topic
         THEN Append(ChunksOfTopic(f, topic, i - 1), f.chunks[i])
         ELSE ChunksOfTopic(f, topic, i - 1)

(* C11: in every group the chunks keep the relative order they have in the
   node's chunk sequence; the i-th classify answer goes with the i-th chunk,
   whatever order the classify calls returned in. *)
C11_IntraGroupOrder ==
    \A p \in Paths :
        Grouped(p) =>
            \A k \in DOMAIN frames[p].sections :
                frames[p].sections[k].chunks
                    = ChunksOfTopic(frames[p], frames[p].sections[k].topic,
                                    Len(frames[p].chunks))

(* a group holds three chunks or more, two of them different, taken from
   positions that are not all adjacent *)
C11_Witness ==
    \E p \in Paths :
        /\ Grouped(p)
        /\ \E k \in DOMAIN frames[p].sections :
              /\ Len(frames[p].sections[k].chunks) >= 3
              /\ frames[p].sections[k].chunks[1] /= frames[p].sections[k].chunks[2]
              /\ frames[p].topics[1] = frames[p].sections[k].topic
              /\ frames[p].topics[2] /= frames[p].sections[k].topic

(* C12: the mapping group_sections returns has as keys exactly the labels
   proposed for the node, one key per label, those of empty groups included. *)
C12_LabelSetFidelity ==
    \A p \in Paths :
        Grouped(p) =>
            LET keys == [k \in DOMAIN frames[p].sections |-> frames[p].sections[k].topic]
            IN  /\ Range(keys) = Range(frames[p].headers)
                /\ Len(keys) = Cardinality(Range(frames[p].headers))

(* a node was grouped with a proposed label no chunk was classified to *)
C12_Witness ==
    \E p \in Paths :
        /\ Grouped(p)
        /\ \E k \in DOMAIN frames[p].sections :
              /\ frames[p].sections[k].chunks = <<>>
              /\ frames[p].sections[k].topic \in Range(frames[p].headers)

(* a service call of the call tree has raised *)
SomeFault == \E p \in Paths : frames[p].fault /= "none"

(* a classify answer outside the proposed labels (the failure of C4, C5) *)
SomeUnknownLabel ==
    \E p \in Paths : \E i \in DOMAIN frames[p].topics :
        frames[p].topics[i] \notin Range(frames[p].headers) \cup {NoTopic, FailTopic}

(* C13: when a service call raises, the node it belongs to still returns (a
   node whose write-section call raised returns the sentinel), and the
   top-level call returns a Section instead of raising. *)
C13_FailureIsolation ==
    /\ \A p \in Paths :
          (frames[p].fault = "write" /\ Finished(frames[p])) =>
              frames[p].pc = "done" /\ frames[p].result = SentinelSection(p)
    /\ (Finished(Root) /\ SomeFault /\ ~SomeUnknownLabel) => Root.pc = "done"

IsPrefix(p, q) == Len(p) < Len(q) /\ SubSeq(q, 1, Len(p)) = p

(* C14: propose-headers is not called while a gist call of the node is in
   flight, no classify call is issued before propose-headers has returned,
   and a node is merged only when every recursive call below it has ended. *)
C14_JoinBarriers ==
    \A p \in Paths :
        /\ frames[p].nHeaders > 0 => frames[p].pending = {}
        /\ frames[p].nClassify > 0 =>
              frames[p].nHeaders = 1 /\ frames[p].pc \notin {"gist", "headers"}
        /\ frames[p].pc \in {"gist", "headers", "classify"} =>
              \A q \in Paths : ~IsPrefix(p, q)
        /\ Finished(frames[p]) =>
              \A q \in Paths : IsPrefix(p, q) => Finished(frames[q])

(* a node has been merged over a child that was itself expanded and merged *)
C14_Witness ==
    \E p \in Paths, q \in Paths :
        /\ IsPrefix(p, q) /\ Len(q) = Len(p) + 1
        /\ Expanded(p) /\ frames[p].pc = "done"
        /\ Expanded(q) /\ frames[q].pc = "done"

(* the service calls of the call at p that are in flight *)
InFlight(p) ==
    CASE frames[p].pc = "write"    -> 1
      [] frames[p].pc = "gist"     -> Cardinality(frames[p].pending)
      [] frames[p].pc = "headers"  -> 1
      [] frames[p].pc = "classify" -> PendingTopics(frames[p])
      [] OTHER                     -> 0

TotalInFlight ==
    BagCardinality([ p \in { q \in Paths : InFlight(q) > 0 } |-> InFlight(p) ])

(* C15: the service calls in flight over the whole call tree never exceed one
   limit that does not depend on how many labels are proposed: the most a
   tree with one label per node has in flight, max(1, number of input chunks). *)
C15_GlobalCap == TotalInFlight <= Max(1, Len(Root.chunks))

(* C17: in the base case, when write-section answers nothing the node
   returns its heading, a blank line and the sentinel; when it answers a text
   the node returns its heading, a blank line and exactly that text. *)
C17_BaseCaseResponse ==
    \A p \in Paths :
        (frames[p].kind = "base" /\ frames[p].pc = "done") =>
            IF frames[p].content = NoneVal
            THEN frames[p].result = <<Last(p), SEP, SENTINEL>>
            ELSE frames[p].result = <<Last(p), SEP>> \o frames[p].content

(* one base case got no answer and another got a text *)
C17_Witness ==
    \E p \in Paths, q \in Paths :
        /\ frames[p].kind = "base" /\ frames[p].pc = "done" /\ frames[p].content = NoneVal
        /\ frames[q].kind = "base" /\ frames[q].pc = "done"
        /\ frames[q].content /= NoneVal /\ frames[q].content /= <<>>

(* C19: every recursive call has the path of the call that issued it with
   exactly one element appended, its own label; the caller keeps its path and
   no call has a sibling's label in its path. *)
C19_PathDiscipline ==
    /\ rootPath \in Paths
    /\ \A p \in Paths :
          p /= rootPath =>
              /\ Parent(p) \in Paths
              /\ Grouped(Parent(p))
              /\ \E k \in DOMAIN frames[Parent(p)].sections :
                    /\ frames[Parent(p)].sections[k].topic = Last(p)
                    /\ frames[Parent(p)].sections[k].chunks = frames[p].chunks
    /\ \A p \in Paths :
          Grouped(p) =>
              \A k \in DOMAIN frames[p].sections :
                  p \o <<frames[p].sections[k].topic>> \in Paths

(* two sibling calls have been issued and one of them has ended *)
C19_Witness ==
    \E p \in Paths :
        /\ Grouped(p) /\ Len(frames[p].sections) = 2
        /\ Len(frames[p].arrived) = 1

(* C20: an expanded node with n chunks issues n gist calls, then one
   propose-headers call, then n classify calls, and no write-section call. *)
C20_CallCounts ==
    \A p \in Paths :
        Expanded(p) =>
            /\ frames[p].nGist = Len(frames[p].chunks)
            /\ frames[p].nHeaders = (IF frames[p].pc = "gist" THEN 0 ELSE 1)
            /\ frames[p].nClassify =
                  (IF frames[p].pc \in {"gist", "headers"} THEN 0 ELSE Len(frames[p].chunks))
            /\ frames[p].nWrite = 0

(* an expanded node whose chunks repeat a text has been merged *)
C20_Witness ==
    \E p \in Paths :
        /\ Expanded(p) /\ frames[p].pc = "done"
        /\ Cardinality(Range(frames[p].chunks)) < Len(frames[p].chunks)

(* a Language Service call of some node returns in this step *)
ServiceReturns ==
    \E p \in DOMAIN frames :
        WriteReturn(p) \/ GistReturn(p) \/ HeadersReturn(p) \/ ClassifyReturn(p)

(* C18: once the caller has cancelled the top-level call no Language Service
   call is completed any more, and the top-level call ends with an error, not
   with a Section. *)
C18_Cancellation ==
    /\ [][cancelled => ~ServiceReturns]_vars
    /\ [](cancelled /\ Finished(Root) => Root.pc = "raised")

(* the scenario's call has returned *)
E2EReturned == rootPath = E2ERoot /\ Root.chunks = E2EChunks /\ Root.pc = "done"

(* the result the scenario expects: two flat sub-sections *)
E2EFlatResult ==
    <<"Doc", SEP, "Greek", SEP>> \o E2EChunks \o <<SEP, "Other", SEP>>

(* the result the call returns: the "Greek" sub-section holds six chunks at
   depth 2 and is expanded once more *)
E2ENestedResult ==
    <<"Doc", SEP, "Greek", SEP, "Greek", SEP>> \o E2EChunks
        \o <<SEP, "Other", SEP, SEP, "Other", SEP>>

(* C16 as stated: in the end-to-end scenario the result is the Section "Doc"
   with exactly the two sub-sections "Greek" and "Other", in that order, each
   body being the concatenation of the chunks assigned to it. *)
C16_EndToEndFlat ==
    E2EReturned =>
        /\ Root.result = E2EFlatResult
        /\ \A k \in DOMAIN Root.sections :
              LET kid == frames[ChildPath(rootPath, Root.sections, k)]
              IN  kid.kind = "base" /\ kid.result = <<Root.sections[k].topic, SEP>> \o kid.chunks

(* C16 amended: in the end-to-end scenario the stub labels all six chunks
   "Greek"; the result is the Section "Doc" with the sub-sections "Greek" and
   "Other" in that order, where "Greek" (six chunks at depth 2) is expanded
   again into "Greek", whose body is the concatenation of the six chunks, and
   an empty "Other", and the top-level "Other" has an empty body. *)
C16_EndToEnd ==
    E2EReturned =>
        /\ Root.result = E2ENestedResult
        /\ [k \in DOMAIN Root.sections |-> Root.sections[k].topic] = StubHeaders
        /\ Root.sections[1].chunks = E2EChunks /\ Root.sections[2].chunks = <<>>
        /\ Expanded(<<"Doc", "Greek">>)
        /\ frames[<<"Doc", "Greek", "Greek">>].result = <<"Greek", SEP>> \o E2EChunks
        /\ frames[<<"Doc", "Greek", "Other">>].result = <<"Other", SEP>>
        /\ frames[<<"Doc", "Other">>].result = <<"Other", SEP>>

C16_Witness == E2EReturned /\ Root.result = E2ENestedResult

(* the calls dispatched by the call at p *)
ChildrenOf(p) == { q \in Paths : Len(q) = Len(p) + 1 /\ Parent(q) = p }

(* the call at p has passed line 84 *)
Entered(p) == frames[p].pc /= "called"

(* C21: a node is expanded if and only if it has at least MinFanoutSize
   chunks and a path of at most MaxDepth - 1 elements, and is a base case
   otherwise; the children of a node expanded at path length MaxDepth - 1 are
   base cases whatever their chunk count, and a node with MinFanoutSize chunks
   or more at path length MaxDepth is a base case. *)
C21_BorderlinePolicy ==
    \A p \in Paths :
        /\ Entered(p) =>
              /\ Expanded(p) <=>
                    (Len(frames[p].chunks) >= MinFanoutSize /\ Len(p) <= MaxDepth - 1)
              /\ frames[p].kind = "base" <=>
                    (Len(frames[p].chunks) < MinFanoutSize \/ Len(p) > MaxDepth - 1)
              /\ frames[p].kind = "base" =>
                    frames[p].nWrite = 1 /\ frames[p].nGist = 0 /\ ChildrenOf(p) = {}
              /\ Expanded(p) =>
                    frames[p].nWrite = 0 /\ frames[p].nGist = Len(frames[p].chunks)
        /\ (Expanded(p) /\ Len(p) = MaxDepth - 1) =>
              \A q \in ChildrenOf(p) : ~Expanded(q)

(* a node with exactly MinFanoutSize chunks at path length MaxDepth - 1 was
   expanded, and a child of it holding all MinFanoutSize chunks has returned
   as a base case *)
C21_Witness ==
    \E p \in Paths :
        /\ Len(p) = MaxDepth - 1 /\ Len(frames[p].chunks) = MinFanoutSize
        /\ Expanded(p)
        /\ \E q \in ChildrenOf(p) :
              /\ Len(frames[q].chunks) = MinFanoutSize
              /\ frames[q].kind = "base" /\ frames[q].pc = "done"

(* what massively_summarize returns for (toc_path, chunks) against the
   deterministic service when every fan-out runs its calls one after the
   other in dispatch order; NoneVal when it raises *)
RECURSIVE SequentialResult(_, _)
SequentialResult(toc_path, chunks) ==
    IF IsBaseCase(toc_path, chunks)
    THEN BaseSection(toc_path, DetContent(toc_path, chunks))
    ELSE LET headers == DetHeaders(toc_path, chunks)
             topics  == [i \in DOMAIN chunks |-> DetTopic(toc_path, chunks[i])]
         IN  IF GroupKeyError(topics, chunks, headers) THEN NoneVal
             ELSE LET sections == group_sections(topics, chunks, headers)
                      kids == [k \in DOMAIN sections |->
                                 SequentialResult(ChildPath(toc_path, sections, k),
                                                  sections[k].chunks)]
                  IN  MergedSection(toc_path, kids)

(* the service calls of that sequential run: the service, the path of the
   calling node and the position of the call in its fan-out *)
RECURSIVE SequentialCalls(_, _)
SequentialCalls(toc_path, chunks) ==
    IF IsBaseCase(toc_path, chunks)
    THEN { <<"write", toc_path, 1>> }
    ELSE LET headers == DetHeaders(toc_path, chunks)
             topics  == [i \in DOMAIN chunks |-> DetTopic(toc_path, chunks[i])]
             own     == { <<"gist", toc_path, i>> : i \in DOMAIN chunks }
                          \cup { <<"headers", toc_path, 1>> }
                          \cup { <<"classify", toc_path, i>> : i \in DOMAIN chunks }
         IN  IF GroupKeyError(topics, chunks, headers) THEN own
             ELSE LET sections == group_sections(topics, chunks, headers)
                  IN  own \cup UNION { SequentialCalls(ChildPath(toc_path, sections, k),
                                                       sections[k].chunks)
                                        : k \in DOMAIN sections }

(* the service calls issued so far by the call at p *)
IssuedCalls(p) ==
    { <<"write", p, i>> : i \in 1..frames[p].nWrite }
        \cup { <<"gist", p, i>> : i \in 1..frames[p].nGist }
        \cup { <<"headers", p, i>> : i \in 1..frames[p].nHeaders }
        \cup { <<"classify", p, i>> : i \in 1..frames[p].nClassify }

(* C22: against a deterministic service, whatever order the gist, classify
   and recursive calls of the fan-outs complete in, the top-level call ends
   with the document of the sequential run on the same (path, chunks) and has
   issued the same set of service calls; so any two runs agree. *)
C22_ScheduleDeterminism ==
    Finished(Root) =>
        /\ Root.result = SequentialResult(rootPath, Root.chunks)
        /\ (Root.pc = "raised") <=> (SequentialResult(rootPath, Root.chunks) = NoneVal)
        /\ UNION { IssuedCalls(p) : p \in Paths } = SequentialCalls(rootPath, Root.chunks)

(* the top-level call has returned after two levels of expansion in which
   some fan-out of recursive calls completed in reverse dispatch order *)
C22_Witness ==
    /\ Root.pc = "done"
    /\ \E p \in Paths : p /= rootPath /\ Expanded(p) /\ frames[p].pc = "done"
    /\ \E p \in Paths :
          /\ Expanded(p) /\ frames[p].arrived = <<2, 1>>
          /\ frames[p].slots[1] /= frames[p].slots[2]

(* the child Sections an expanded node retains: the results of its recursive
   calls that returned, in dispatch order *)
Retained(p) == SelectSeq(frames[p].slots, LAMBDA sec : sec /= NoneVal)

(* the value returned by the call at p begins with the last element of its
   path and a blank line *)
HeadingFirst(p) ==
    /\ Len(frames[p].result) >= 2
    /\ frames[p].result[1] = Last(p)
    /\ frames[p].result[2] = SEP

(* every result an expanded node holds of a child is the child's own return
   value, which begins with the child's label *)
ChildrenRendered(p) ==
    \A k \in DOMAIN frames[p].slots :
        LET q == ChildPath(p, frames[p].sections, k)
        IN  frames[p].slots[k] /= NoneVal =>
                /\ frames[p].slots[k] = frames[q].result
                /\ frames[q].pc = "done" /\ HeadingFirst(q)

(* C23: every returned value begins with the last path element and
   a blank line, and in the recursive case the rest is the retained child
   Sections joined by the blank-line separator, nothing else. *)
C23_JoinOnly ==
    \A p \in Paths :
        frames[p].pc = "done" =>
            /\ HeadingFirst(p)
            /\ Expanded(p) =>
                  /\ ChildrenRendered(p)
                  /\ Body(frames[p].result) = JoinSep(Retained(p))

(* the labels of headers, each once, in the order of their first occurrence *)
RECURSIVE FirstOccurrences(_, _)
FirstOccurrences(headers, i) ==
    IF i = 0 THEN <<>>
    ELSE IF \E j \in 1..(i - 1) : headers[j] = headers[i]
         THEN FirstOccurrences(headers, i - 1)
         ELSE Append(FirstOccurrences(headers, i - 1), headers[i])

HasRepeatedLabel(headers) == Cardinality(Range(headers)) < Len(headers)

(* the chunks handed to the recursive calls in S, as a multiset *)
RECURSIVE DispatchedBag(_)
DispatchedBag(S) ==
    IF S = {} THEN EmptyBag
    ELSE LET q == CHOOSE r \in S : TRUE
         IN  BagOfSeq(frames[q].chunks) (+) DispatchedBag(S \ {q})

(* C24: at a node to which propose-headers answered a list that repeats a
   label and whose chunks were grouped, there is one group per distinct label,
   at the position of the label's first occurrence; a group holds every chunk
   classified to its label; one recursive call is issued per distinct label;
   and the groups, and the chunks handed to the recursive calls, hold each
   chunk of the node exactly once. *)
C24_DuplicateLabels ==
    \A p \in Paths :
        (Grouped(p) /\ HasRepeatedLabel(frames[p].headers)) =>
            LET f == frames[p]
                labels == FirstOccurrences(f.headers, Len(f.headers))
            IN  /\ [k \in DOMAIN f.sections |-> f.sections[k].topic] = labels
                /\ \A k \in DOMAIN f.sections :
                      f.sections[k].chunks = ChunksOfTopic(f, labels[k], Len(f.chunks))
                /\ Len(f.slots) = Len(labels)
                /\ ChildrenOf(p) = { p \o <<labels[k]>> : k \in DOMAIN labels }
                /\ Cardinality(ChildrenOf(p)) = Cardinality(Range(f.headers))
                /\ \A k \in DOMAIN labels :
                      frames[p \o <<labels[k]>>].chunks = f.sections[k].chunks
                /\ GroupedBag(f.sections, Len(f.sections)) = BagOfSeq(f.chunks)
                /\ DispatchedBag(ChildrenOf(p)) = BagOfSeq(f.chunks)

(* a node with headers Other, Greek, Greek, Other and chunks of both labels
   has merged the Sections of its two recursive calls *)
C24_Witness ==
    \E p \in Paths :
        /\ Grouped(p) /\ frames[p].pc = "done"
        /\ frames[p].headers = <<"Other", "Greek", "Greek", "Other">>
        /\ \A k \in DOMAIN frames[p].sections : Len(frames[p].sections[k].chunks) >= 2
        /\ Len(Retained(p)) = 2

====
